---- MODULE Spec2Model ----
(***************************************************************************)
(* Knowledge-graph view of web_app/static/js/knowledge-graph.js: the       *)
(* module-level state (network, nodes, edges, graphData), the loader       *)
(* loadGraph, the detail panel showEntityDetails, the search handler       *)
(* searchEntity and the export exportGraph.                                *)
(*                                                                         *)
(* Conventions.  A JavaScript string on which the code computes (trim,     *)
(* toLowerCase, includes) is a sequence of one-character strings; a string *)
(* the code only copies or compares is a TLA+ string.  A value that may be *)
(* absent (undefined / null) is a sequence of length 0 or 1: None is       *)
(* absent, Some(x) is x.                                                   *)
(***************************************************************************)
EXTENDS Integers, Sequences, FiniteSets, TLC

VARIABLES
    visLoaded,   \* whether the vis-network script defined the global `vis`
    network,     \* knowledge-graph.js:3   None, or Some(surface number)
    nodes,       \* knowledge-graph.js:4   None, or Some(DataSet of nodes)
    edges,       \* knowledge-graph.js:5   None, or Some(DataSet of edges)
    graphData,   \* knowledge-graph.js:6   None, or Some(export response)
    container,   \* content of the element #mynetwork
    panel,       \* content of the element #entityDetails
    pending,     \* the loadGraph calls suspended at the fetch (line 125), each
                 \* with the content #mynetwork had when it was called
    surfaces,    \* number of vis.Network surfaces constructed so far
    stats,       \* the counters #nodeCount, #edgeCount, #typeCount
    turns,       \* event-loop turns run or owed (a pending loadGraph owes one)
    last,        \* what the handler that ran last did (calls, alert, throw)
    loaded,      \* history: the export the last completed loadGraph call
                 \* loaded, None when that call failed or none completed
    status,      \* the banner elements .status in the document, in document
                 \* order
    timers,      \* the banner elements (by number) whose removal timer is
                 \* pending
    ws,          \* websocket.js:3   None, or Some(number of the WebSocket)
    isConnected, \* websocket.js:4
    sockets,     \* the WebSockets created so far, each with its state
    reconnects,  \* pending timers of websocket.js:31
    messageInput,\* the text of #messageInput
    chat,        \* the messages in #chatContainer
    sendDisabled,\* #sendBtn.disabled
    sent,        \* the data handed to WebSocket.send, with the socket
    docCount,    \* the text of #docCount: None, or Some(number of documents)
    uploads,     \* the handleFileSelect calls suspended at the fetch of
                 \* file-upload.js:29, each with the switch it read at line 22
    listings     \* number of loadDocuments calls suspended (file-upload.js:109)

vars == <<visLoaded, network, nodes, edges, graphData, container, panel,
          pending, surfaces, stats, turns, last, loaded,
          status, timers, ws, isConnected, sockets, reconnects,
          messageInput, chat, sendDisabled, sent, docCount, uploads, listings>>

\* the state of knowledge-graph.js, and the state the upload code works on
graphVars == <<visLoaded, network, nodes, edges, graphData, container, panel,
               pending, surfaces, stats, loaded>>
bannerVars == <<status, timers>>
socketVars == <<ws, isConnected, sockets, reconnects>>
chatVars == <<messageInput, chat, sendDisabled, sent>>
uploadVars == <<docCount, uploads, listings>>
shellVars == <<bannerVars, socketVars, chatVars, uploadVars>>

----------------------------------------------------------------------------
(* Bounds of the model.                                                    *)

\* event-loop turns explored: a handler run is one turn, a loadGraph call two
\* (the call up to its await, and its resumption)
MaxTurns == 5
\* loadGraph calls suspended at the same time
MaxInFlight == 2

----------------------------------------------------------------------------
(* Absent values and strings.                                              *)

None == <<>>
Some(x) == <<x>>
IsSome(o) == o # <<>>
Get(o) == o[1]

SeqsUpTo(S, n) == UNION {[1..k -> S] : k \in 0..n}
RemoveAt(s, i) == SubSeq(s, 1, i - 1) \o SubSeq(s, i + 1, Len(s))

\* String.prototype.toLowerCase on the alphabet of the model
LowerChar(c) == IF c = "A" THEN "a" ELSE IF c = "C" THEN "c" ELSE c
toLowerCase(s) == [i \in 1..Len(s) |-> LowerChar(s[i])]

\* String.prototype.trim: strips leading and trailing white space
IsSpace(c) == c = " "
RECURSIVE TrimStart(_)
TrimStart(s) == IF s # <<>> /\ IsSpace(Head(s)) THEN TrimStart(Tail(s)) ELSE s
RECURSIVE TrimEnd(_)
TrimEnd(s) ==
    IF s # <<>> /\ IsSpace(s[Len(s)]) THEN TrimEnd(SubSeq(s, 1, Len(s) - 1)) ELSE s
trim(s) == TrimEnd(TrimStart(s))

\* String.prototype.includes: k occurs in s as a contiguous substring
includes(s, k) ==
    \E i \in 0..(Len(s) - Len(k)) : SubSeq(s, i + 1, i + Len(k)) = k

----------------------------------------------------------------------------
(* The type-color table.  The keys of the source are Chinese labels; the   *)
(* model writes them in English, in the order of the table.                *)

typeColors ==
    [t \in {"Organization", "Person", "Product", "Concept", "Location",
            "Time", "Project", "Unknown"} |->
        CASE t = "Organization" -> "#FF6B6B"
          [] t = "Person"       -> "#4ECDC4"
          [] t = "Product"      -> "#45B7D1"
          [] t = "Concept"      -> "#FFA07A"
          [] t = "Location"     -> "#98D8C8"
          [] t = "Time"         -> "#DDA15E"
          [] t = "Project"      -> "#F7DC6F"
          [] t = "Unknown"      -> "#B8B8B8"]

\* Property names every JavaScript object literal inherits from
\* Object.prototype: typeColors[name] is then a truthy inherited member.
ObjectPrototypeKeys == {"constructor", "toString", "valueOf", "hasOwnProperty"}

\* typeColors[type]: the own property, an inherited member, or undefined
Lookup(type) ==
    IF type \in DOMAIN typeColors THEN Some(typeColors[type])
    ELSE IF type \in ObjectPrototypeKeys THEN Some("[inherited member]")
    ELSE None

\* typeColors[node.type] || typeColors['Unknown']
colorFor(type) ==
    IF IsSome(Lookup(type)) THEN Get(Lookup(type)) ELSE typeColors["Unknown"]

HighlightColor == "#FF0000"
HighlightBorder == 4
DefaultBorder == 2

----------------------------------------------------------------------------
(* The export responses the server may send.                               *)

\* JavaScript truthiness of an optional string: undefined and '' are falsy
Truthy(o) == IsSome(o) /\ Get(o) # ""
\* the same for a string held as a sequence of characters
TruthyChars(o) == IsSome(o) /\ Get(o) # <<>>

NodePool ==
    { [id |-> 1, label |-> <<"A", "a">>, type |-> "Organization",
       description |-> None, source_document |-> None],
      [id |-> 2, label |-> <<"C">>, type |-> "Alien",
       description |-> Some(<<"x", " ", "A">>), source_document |-> Some("doc.txt")] }

EdgePool ==
    { [source |-> 1, target |-> 2, relation |-> "employs", description |-> None],
      [source |-> 1, target |-> 1, relation |-> "owns", description |-> Some("self")],
      [source |-> 99, target |-> 2, relation |-> "knows", description |-> None] }

NodeLists == SeqsUpTo(NodePool, 2)
\* edge lists name a relation once
EdgeLists ==
    {l \in SeqsUpTo(EdgePool, 2) : \A i, j \in 1..Len(l) : l[i] = l[j] => i = j}

\* nodes_count / edges_count are optional fields of the response: sent with
\* the lengths of the lists, or (here for the exports without edges) omitted
CountPairs(ns, es) ==
    IF IsSome(ns) /\ IsSome(es)
    THEN { <<Some(Len(Get(ns))), Some(Len(Get(es)))>> } \cup
         (IF Get(es) = <<>> THEN { <<None, None>> } ELSE {})
    ELSE { <<None, None>> }

\* the nodes and edges of a response with success true: both lists, or a
\* payload with the nodes or the edges list missing
Payloads ==
    { <<Some(ns), Some(es)>> : ns \in NodeLists, es \in EdgeLists } \cup
    { <<None, Some(<<>>)>>, <<None, None>> } \cup
    { <<Some(ns), None>> : ns \in NodeLists }

Results ==
    { [success |-> FALSE, error |-> e, nodes |-> None, edges |-> None,
       nodes_count |-> None, edges_count |-> None] :
         e \in {None, Some(""), Some("graph store offline")} }
    \cup
    UNION { { [success |-> TRUE, error |-> None, nodes |-> p[1], edges |-> p[2],
                nodes_count |-> c[1], edges_count |-> c[2]] :
                  c \in CountPairs(p[1], p[2]) } :
            p \in Payloads }

\* What the two awaits of loadGraph resolve to: the fetch or the JSON parse
\* rejects, or the parsed body
Responses ==
    { [resolved |-> FALSE, result |-> None] } \cup
    { [resolved |-> TRUE, result |-> Some(r)] : r \in Results }

----------------------------------------------------------------------------
(* vis.DataSet: an insertion-ordered collection of items with unique ids.  *)

Ids(items) == {items[i].id : i \in 1..Len(items)}
HasDuplicateIds(items) ==
    \E i, j \in 1..Len(items) : i # j /\ items[i].id = items[j].id

\* DataSet.get(id): the item, or null
DataSetGet(ds, id) ==
    IF id \in Ids(ds) THEN Some(ds[CHOOSE i \in 1..Len(ds) : ds[i].id = id]) ELSE None

\* the callback of result.nodes.map (lines 137-145)
StoreNode(node) ==
    [ id |-> node.id,
      label |-> node.label,
      title |-> <<node.type, IF TruthyChars(node.description) THEN Get(node.description) ELSE <<>> >>,
      color |-> colorFor(node.type),
      type |-> node.type,
      description |-> node.description,
      source_document |-> node.source_document,
      borderWidth |-> None ]

\* the callback of result.edges.map with ids counted from 1
StoreEdgeOneBased(edge, index) ==
    [ id |-> index + 1,
      from |-> edge.source,
      to |-> edge.target,
      label |-> edge.relation,
      title |-> IF Truthy(edge.description) THEN Get(edge.description) ELSE edge.relation ]

\* the callback of result.edges.map (lines 148-154); index is 0-based
StoreEdge(edge, index) ==
    [ id |-> index,
      from |-> edge.source,
      to |-> edge.target,
      label |-> edge.relation,
      title |-> IF Truthy(edge.description) THEN Get(edge.description) ELSE edge.relation ]

nodesArray(result) == [i \in 1..Len(Get(result.nodes)) |-> StoreNode(Get(result.nodes)[i])]
edgesArray(result) ==
    [i \in 1..Len(Get(result.edges)) |-> StoreEdge(Get(result.edges)[i], i - 1)]

\* updateStats (lines 179-186)
CountOr0(c) == IF IsSome(c) THEN Get(c) ELSE 0
updateStats(data) ==
    [ nodeCount |-> CountOr0(data.nodes_count),
      edgeCount |-> CountOr0(data.edges_count),
      typeCount |-> Cardinality({Get(data.nodes)[i].type : i \in 1..Len(Get(data.nodes))}) ]

----------------------------------------------------------------------------
(* The initial state: the scripts are evaluated, no handler has run.       *)

\* what one handler run did: the text it read from the search box (input),
\* the options it passed to the surface's focus or fit (animation),
\* the alert it raised, the nodes it asked the
\* surface to focus, the nodes it called showEntityDetails for, whether it
\* asked the surface to fit, the document it offered for download, whether
\* an exception was thrown in it, and whether it replaced the snapshot
Quiet(op) ==
    [ op |-> op, alert |-> None, focused |-> <<>>, detailed |-> <<>>,
      fitted |-> FALSE, download |-> None, threw |-> FALSE, replaced |-> FALSE,
      input |-> None, animation |-> None ]

\* the options of network.focus (lines 109-115 and 290-296) and of
\* network.fit (lines 304-309)
FocusOptions == [scale |-> Some("1.5"), duration |-> 1000, easingFunction |-> "easeInOutQuad"]
FitOptions == [scale |-> None, duration |-> 1000, easingFunction |-> "easeInOutQuad"]

Init ==
    /\ visLoaded \in BOOLEAN
    /\ network = None
    /\ nodes = None
    /\ edges = None
    /\ graphData = None
    /\ container = "initial"
    /\ panel = None
    /\ pending = <<>>
    /\ surfaces = 0
    /\ stats = None
    /\ turns = 0
    /\ last = Quiet("none")
    /\ loaded = None
    /\ status = <<>>
    /\ timers = {}
    /\ ws = None
    /\ isConnected = FALSE
    /\ sockets = <<>>
    /\ reconnects = 0
    /\ messageInput = <<>>
    /\ chat = <<>>
    /\ sendDisabled = FALSE
    /\ sent = <<>>
    /\ docCount = None
    /\ uploads = <<>>
    /\ listings = 0

----------------------------------------------------------------------------
(* loadGraph (lines 121-176).  The call runs to the first await, is        *)
(* suspended while the request is in flight, and resumes with the response.*)

\* lines 122-125: showLoading() replaces the content of #mynetwork, then the
\* request is issued.  Nothing in loadGraph looks at an earlier call.
LoadStart ==
    /\ turns + 2 <= MaxTurns
    /\ Len(pending) < MaxInFlight
    /\ container' = "loading"
    /\ pending' = Append(pending, [before |-> container])
    /\ turns' = turns + 2
    /\ last' = Quiet("loadGraph called")
    /\ UNCHANGED <<visLoaded, network, nodes, edges, graphData, panel, surfaces,
                   stats, loaded, shellVars>>

\* lines 171-175 after a rejected fetch or JSON parse: nothing was assigned
LoadRejected(resp) ==
    /\ ~resp.resolved
    /\ last' = [Quiet("loadGraph resumed") EXCEPT !.alert = Some("Failed to fetch")]
    /\ loaded' = None
    /\ UNCHANGED <<network, nodes, edges, graphData, container, surfaces, stats>>

\* loadGraph with line 134 moved above the test of line 128
LoadRefusedAfterAssigning(resp) ==
    /\ resp.resolved
    /\ ~Get(resp.result).success
    /\ graphData' = resp.result
    /\ LET result == Get(resp.result) IN
         last' = [Quiet("loadGraph resumed") EXCEPT
                    !.alert = Some(IF Truthy(result.error) THEN Get(result.error)
                                   ELSE "unknown error")]
    /\ loaded' = None
    /\ UNCHANGED <<network, nodes, edges, container, surfaces, stats>>

\* lines 128-132: the server reports failure
LoadRefused(resp) ==
    /\ resp.resolved
    /\ ~Get(resp.result).success
    /\ LET result == Get(resp.result) IN
         last' = [Quiet("loadGraph resumed") EXCEPT
                    !.alert = Some(IF Truthy(result.error) THEN Get(result.error)
                                   ELSE "unknown error")]
    /\ loaded' = None
    /\ UNCHANGED <<network, nodes, edges, graphData, container, surfaces, stats>>

\* the statement of lines 134-157 that throws, if any: result.nodes.map on a
\* missing list, result.edges.map on a missing list, `vis` not defined, or
\* new vis.DataSet on two items with one id
LoadThrowsAt(result) ==
    IF ~IsSome(result.nodes) THEN Some("TypeError: result.nodes is undefined")
    ELSE IF ~IsSome(result.edges) THEN Some("TypeError: result.edges is undefined")
    ELSE IF ~visLoaded THEN Some("ReferenceError: vis is not defined")
    ELSE IF HasDuplicateIds(nodesArray(result)) THEN Some("Error: duplicate id")
    ELSE None

\* line 134 has run when lines 137-157 throw into the catch of lines 171-175
LoadThrows(resp) ==
    /\ resp.resolved
    /\ Get(resp.result).success
    /\ IsSome(LoadThrowsAt(Get(resp.result)))
    /\ graphData' = resp.result
    /\ last' = [Quiet("loadGraph resumed") EXCEPT !.alert = LoadThrowsAt(Get(resp.result)),
                                          !.threw = TRUE]
    /\ loaded' = None
    /\ UNCHANGED <<network, nodes, edges, container, surfaces, stats>>

\* loadGraph with initNetwork called on every pass (no test at line 163)
LoadSucceedsReinitializing(resp) ==
    /\ resp.resolved
    /\ Get(resp.result).success
    /\ ~IsSome(LoadThrowsAt(Get(resp.result)))
    /\ LET result == Get(resp.result) IN
         /\ graphData' = Some(result)
         /\ nodes' = Some(nodesArray(result))
         /\ edges' = Some(edgesArray(result))
         /\ stats' = Some(updateStats(result))
    /\ network' = Some(surfaces + 1)
    /\ surfaces' = surfaces + 1
    /\ container' = "canvas"
    /\ last' = [Quiet("loadGraph resumed") EXCEPT !.replaced = TRUE]
    /\ loaded' = resp.result

\* lines 134-169 run through; initNetwork (lines 21-118) on the first pass,
\* network.setData afterwards
LoadSucceeds(resp) ==
    /\ resp.resolved
    /\ Get(resp.result).success
    /\ ~IsSome(LoadThrowsAt(Get(resp.result)))
    /\ LET result == Get(resp.result) IN
         /\ graphData' = Some(result)
         /\ nodes' = Some(nodesArray(result))
         /\ edges' = Some(edgesArray(result))
         /\ stats' = Some(updateStats(result))
    /\ IF network = None
         THEN /\ network' = Some(surfaces + 1)
              /\ surfaces' = surfaces + 1
              /\ container' = "canvas"
         ELSE UNCHANGED <<network, surfaces, container>>
    /\ last' = [Quiet("loadGraph resumed") EXCEPT !.replaced = TRUE]
    /\ loaded' = resp.result

\* any of the suspended calls may be the one whose response arrives; of
\* calls suspended with the same frame, which are interchangeable, the
\* earliest is taken
LoadComplete(call, resp) ==
    /\ call \in 1..Len(pending)
    /\ \A earlier \in 1..(call - 1) : pending[earlier] # pending[call]
    /\ pending' = RemoveAt(pending, call)
    /\ \/ LoadRejected(resp)
       \/ LoadRefused(resp)
       \/ LoadThrows(resp)
       \/ LoadSucceeds(resp)
    /\ UNCHANGED <<visLoaded, panel, turns, shellVars>>

----------------------------------------------------------------------------
(* showEntityDetails (lines 189-247).                                      *)

\* lines 194-199
connectedEdges(es, nodeId) == SelectSeq(es, LAMBDA e : e.from = nodeId \/ e.to = nodeId)
outgoing(es, nodeId) == SelectSeq(connectedEdges(es, nodeId), LAMBDA e : e.from = nodeId)
incoming(es, nodeId) == SelectSeq(connectedEdges(es, nodeId), LAMBDA e : e.to = nodeId)

\* an edge of the lists whose other endpoint nodes.get does not find:
\* targetNode.label (line 220) or sourceNode.label (line 233) then throws
Unresolved(ns, es, nodeId) ==
    \/ \E i \in 1..Len(outgoing(es, nodeId)) : DataSetGet(ns, outgoing(es, nodeId)[i].to) = None
    \/ \E i \in 1..Len(incoming(es, nodeId)) : DataSetGet(ns, incoming(es, nodeId)[i].from) = None

\* the markup with || for && in the test of line 242
DetailsHtmlEitherEmpty(ns, es, nodeId) ==
    LET node == Get(DataSetGet(ns, nodeId))
        out == outgoing(es, nodeId)
        inc == incoming(es, nodeId)
    IN [ id |-> nodeId,
         label |-> node.label,
         type |-> node.type,
         description |-> IF TruthyChars(node.description) THEN node.description ELSE None,
         source_document |-> IF Truthy(node.source_document) THEN node.source_document ELSE None,
         outgoing |-> [i \in 1..Len(out) |->
                         <<node.label, out[i].label, Get(DataSetGet(ns, out[i].to)).label>>],
         incoming |-> [i \in 1..Len(inc) |->
                         <<Get(DataSetGet(ns, inc[i].from)).label, inc[i].label, node.label>>],
         noRelations |-> Len(out) = 0 \/ Len(inc) = 0 ]

\* the markup of lines 201-244, as the data it renders
DetailsHtml(ns, es, nodeId) ==
    LET node == Get(DataSetGet(ns, nodeId))
        out == outgoing(es, nodeId)
        inc == incoming(es, nodeId)
    IN [ id |-> nodeId,
         label |-> node.label,
         type |-> node.type,
         description |-> IF TruthyChars(node.description) THEN node.description ELSE None,
         source_document |-> IF Truthy(node.source_document) THEN node.source_document ELSE None,
         outgoing |-> [i \in 1..Len(out) |->
                         <<node.label, out[i].label, Get(DataSetGet(ns, out[i].to)).label>>],
         incoming |-> [i \in 1..Len(inc) |->
                         <<Get(DataSetGet(ns, inc[i].from)).label, inc[i].label, node.label>>],
         noRelations |-> Len(out) = 0 /\ Len(inc) = 0 ]

\* showEntityDetails without the test of line 191: node.label then throws
showEntityDetailsUnguarded(nodeId) ==
    IF nodes = None THEN [panel |-> panel, threw |-> TRUE]
    ELSE IF DataSetGet(Get(nodes), nodeId) = None THEN [panel |-> panel, threw |-> TRUE]
    ELSE IF Unresolved(Get(nodes), Get(edges), nodeId) THEN [panel |-> panel, threw |-> TRUE]
    ELSE [panel |-> Some(DetailsHtml(Get(nodes), Get(edges), nodeId)), threw |-> FALSE]

\* the panel after showEntityDetails(nodeId), and whether the call threw
showEntityDetails(nodeId) ==
    IF nodes = None THEN [panel |-> panel, threw |-> TRUE]
    ELSE IF DataSetGet(Get(nodes), nodeId) = None THEN [panel |-> panel, threw |-> FALSE]
    ELSE IF Unresolved(Get(nodes), Get(edges), nodeId) THEN [panel |-> panel, threw |-> TRUE]
    ELSE [panel |-> Some(DetailsHtml(Get(nodes), Get(edges), nodeId)), threw |-> FALSE]

----------------------------------------------------------------------------
(* searchEntity (lines 250-299).                                           *)

QueryAlphabet == {"a", "C", " "}
Queries == SeqsUpTo(QueryAlphabet, 2)

\* lines 271-272 without the description clause
MatchesLabelOnly(node, keyword) == includes(toLowerCase(node.label), keyword)

\* the condition of lines 271-272
Matches(node, keyword) ==
    \/ includes(toLowerCase(node.label), keyword)
    \/ /\ TruthyChars(node.description)
       /\ includes(toLowerCase(Get(node.description)), keyword)

\* lines 256-261 with the update left out
ResetNothing(ns) == ns

\* lines 256-261: nodes.update({id, color}) for every node
ResetColors(ns) ==
    [i \in 1..Len(ns) |-> [ns[i] EXCEPT !.color = colorFor(ns[i].type)]]

\* lines 270-286 keeping only the matched nodes in the DataSet
HighlightRemovingOthers(ns, keyword) ==
    LET hit == SelectSeq(ns, LAMBDA n : Matches(n, keyword))
    IN [i \in 1..Len(hit) |->
          [hit[i] EXCEPT !.color = HighlightColor, !.borderWidth = Some(HighlightBorder)]]

\* lines 270-286: nodes.update for every node, matched or not
Highlight(ns, keyword) ==
    [i \in 1..Len(ns) |->
        IF Matches(ns[i], keyword)
        THEN [ns[i] EXCEPT !.color = HighlightColor, !.borderWidth = Some(HighlightBorder)]
        ELSE [ns[i] EXCEPT !.color = colorFor(ns[i].type), !.borderWidth = Some(DefaultBorder)]]

\* the ids pushed at line 278, in the order of the DataSet
foundNodes(ns, keyword) ==
    LET hit == SelectSeq(ns, LAMBDA n : Matches(n, keyword))
    IN [i \in 1..Len(hit) |-> hit[i].id]

\* line 289 with >= 1 for === 1
AutoFocusOnAnyMatch(found) == Len(found) >= 1 /\ network # None

\* the condition of line 289
AutoFocus(found) == Len(found) = 1 /\ network # None

\* line 251 reads event.target.value
Typed(value) == [Quiet("searchEntity") EXCEPT !.input = Some(value)]

searchEntity(value) ==
    /\ turns < MaxTurns
    /\ turns' = turns + 1
    /\ LET keyword == toLowerCase(trim(value)) IN
         IF keyword = <<>>
         THEN /\ nodes' = IF nodes = None THEN None ELSE Some(ResetColors(Get(nodes)))
              /\ last' = Typed(value)
              /\ UNCHANGED panel
         ELSE IF nodes = None
         THEN /\ last' = Typed(value)
              /\ UNCHANGED <<nodes, panel>>
         ELSE LET found == foundNodes(Get(nodes), keyword) IN
              /\ nodes' = Some(Highlight(Get(nodes), keyword))
              /\ IF AutoFocus(found)
                   THEN LET shown == showEntityDetails(found[1]) IN
                        /\ panel' = shown.panel
                        /\ last' = [Typed(value) EXCEPT
                                      !.focused = <<found[1]>>,
                                      !.animation = Some(FocusOptions),
                                      !.detailed = <<found[1]>>,
                                      !.threw = shown.threw]
                   ELSE /\ last' = Typed(value)
                        /\ UNCHANGED panel
    /\ UNCHANGED <<visLoaded, network, edges, graphData, container, pending,
                   surfaces, stats, loaded, shellVars>>

----------------------------------------------------------------------------
(* The handlers initNetwork binds (lines 98-117).  The surface delivers    *)
(* pointer events only while its canvas is the content of #mynetwork.      *)

\* what a pointer event hits: the background, or one node of the surface
Targets == {None} \cup {Some(id) : id \in IF nodes = None THEN {} ELSE Ids(Get(nodes))}

\* the handler of lines 98-103 passes on the id the surface reports without
\* looking it up: an id that no node of the store has is among its inputs
ClickTargets == Targets \cup {Some(99)}

\* lines 98-103
Click(target) ==
    /\ turns < MaxTurns
    /\ network # None
    /\ container = "canvas"
    /\ turns' = turns + 1
    /\ IF IsSome(target)
         THEN LET shown == showEntityDetails(Get(target)) IN
              /\ panel' = shown.panel
              /\ last' = [Quiet("click") EXCEPT !.detailed = <<Get(target)>>,
                                                !.threw = shown.threw]
         ELSE /\ last' = Quiet("click")
              /\ UNCHANGED panel
    /\ UNCHANGED <<visLoaded, network, nodes, edges, graphData, container, pending,
                   surfaces, stats, loaded, shellVars>>

\* lines 106-117
DoubleClick(target) ==
    /\ turns < MaxTurns
    /\ network # None
    /\ container = "canvas"
    /\ turns' = turns + 1
    /\ last' = IF IsSome(target)
                 THEN [Quiet("doubleClick") EXCEPT !.focused = <<Get(target)>>,
                                                   !.animation = Some(FocusOptions)]
                 ELSE Quiet("doubleClick")
    /\ UNCHANGED <<visLoaded, network, nodes, edges, graphData, container, panel,
                   pending, surfaces, stats, loaded, shellVars>>

\* fitGraph without the test of line 303: network.fit on null throws
fitGraphUnguarded ==
    /\ turns < MaxTurns
    /\ turns' = turns + 1
    /\ last' = IF network # None
                 THEN [Quiet("fitGraph") EXCEPT !.fitted = TRUE,
                                                !.animation = Some(FitOptions)]
                 ELSE [Quiet("fitGraph") EXCEPT !.threw = TRUE]
    /\ UNCHANGED <<visLoaded, network, nodes, edges, graphData, container, panel,
                   pending, surfaces, stats, loaded, shellVars>>

\* fitGraph (lines 302-311)
fitGraph ==
    /\ turns < MaxTurns
    /\ turns' = turns + 1
    /\ last' = IF network # None
                 THEN [Quiet("fitGraph") EXCEPT !.fitted = TRUE,
                                                !.animation = Some(FitOptions)]
                 ELSE Quiet("fitGraph")
    /\ UNCHANGED <<visLoaded, network, nodes, edges, graphData, container, panel,
                   pending, surfaces, stats, loaded, shellVars>>

\* exportGraph writing the document without the edges of graphData
exportGraphWithoutEdges ==
    /\ turns < MaxTurns
    /\ turns' = turns + 1
    /\ last' = IF graphData = None
                 THEN [Quiet("exportGraph") EXCEPT !.alert = Some("load the graph first")]
                 ELSE [Quiet("exportGraph") EXCEPT
                         !.download = Some([Get(graphData) EXCEPT !.edges = Some(<<>>)])]
    /\ UNCHANGED <<visLoaded, network, nodes, edges, graphData, container, panel,
                   pending, surfaces, stats, loaded, shellVars>>

\* exportGraph (lines 314-330): JSON.stringify writes the fields that are
\* present, in the order they have in graphData
exportGraph ==
    /\ turns < MaxTurns
    /\ turns' = turns + 1
    /\ last' = IF graphData = None
                 THEN [Quiet("exportGraph") EXCEPT !.alert = Some("load the graph first")]
                 ELSE [Quiet("exportGraph") EXCEPT !.download = graphData]
    /\ UNCHANGED <<visLoaded, network, nodes, edges, graphData, container, panel,
                   pending, surfaces, stats, loaded, shellVars>>

----------------------------------------------------------------------------
(* The document upload of file-upload.js and the banner of showStatus.     *)

\* document.createElement (line 366) makes an element distinct from every
\* element still attached or still held by a timer: it gets the least
\* number none of those has
NewElement ==
    LET used == timers \cup {status[i].serial : i \in 1..Len(status)}
    IN CHOOSE n \in 1..(Cardinality(used) + 1) :
          n \notin used /\ \A m \in 1..(n - 1) : m \in used

\* showStatus (knowledge-graph.js lines 361-388): the first .status element
\* of the document is removed, a new element is appended with the lines of
\* message, and a timer is set for the new element unless duration is 0
showStatus(message, type, duration) ==
    /\ status' = Append(IF status # <<>> THEN Tail(status) ELSE status,
                        [serial |-> NewElement, lines |-> message, type |-> type,
                         duration |-> duration])
    /\ timers' = IF duration > 0 THEN timers \cup {NewElement} ELSE timers

\* duration = 3000 in the parameter list of line 361
DefaultDuration == 3000

\* one line of a banner: its fixed text, the text spliced into it, and the
\* numbers spliced into it
Line(text, detail, nums) == [text |-> text, detail |-> detail, nums |-> nums]

\* x || 0 on an optional number
NumberOr0(x) == IF IsSome(x) /\ Get(x) # 0 THEN Get(x) ELSE 0

\* the knowledge_graph member of an upload response
KgResults ==
    { [success |-> TRUE, error |-> None,
       new_entities |-> e[1], updated_entities |-> e[2],
       new_relations |-> r[1], updated_relations |-> None,
       total_nodes |-> 2, total_edges |-> 1,
       persisted |-> r[2], skipped_relations_count |-> r[3]] :
         e \in { <<None, None>>, <<Some(2), Some(0)>>, <<None, Some(1)>> },
         r \in { <<None, TRUE, None>>, <<Some(1), FALSE, Some(1)>>,
                 <<Some(1), FALSE, Some(0)>> } }
    \cup
    { [success |-> FALSE, error |-> err,
       new_entities |-> None, updated_entities |-> None,
       new_relations |-> None, updated_relations |-> None,
       total_nodes |-> 0, total_edges |-> 0,
       persisted |-> FALSE, skipped_relations_count |-> None] :
         err \in {None, Some("extraction failed")} }

UploadResults ==
    { [success |-> FALSE, message |-> "unsupported file", chunks |-> 0,
       knowledge_graph |-> None, knowledge_graph_error |-> None] }
    \cup
    { [success |-> TRUE, message |-> "", chunks |-> 3,
       knowledge_graph |-> Some(kg), knowledge_graph_error |-> None] :
         kg \in KgResults }
    \cup
    { [success |-> TRUE, message |-> "", chunks |-> 3,
       knowledge_graph |-> None, knowledge_graph_error |-> err] :
         err \in {None, Some("graph store offline")} }

\* what the awaits of lines 29 and 34 resolve to
UploadResponses ==
    { [resolved |-> FALSE, result |-> None] } \cup
    { [resolved |-> TRUE, result |-> Some(r)] : r \in UploadResults }

\* lines 46-70: the lines a successful build adds to the message
KgSuccessLines(kg) ==
    LET newEntities == NumberOr0(kg.new_entities)
        updatedEntities == NumberOr0(kg.updated_entities)
        newRelations == NumberOr0(kg.new_relations)
        updatedRelations == NumberOr0(kg.updated_relations)
    IN << Line(IF newEntities > 0 \/ newRelations > 0
               THEN "graph updated incrementally" ELSE "graph updated", "", <<>>) >>
       \o (IF newEntities > 0 \/ updatedEntities > 0
           THEN << Line("entities", "", <<newEntities, updatedEntities, kg.total_nodes>>) >>
           ELSE <<>>)
       \o (IF newRelations > 0 \/ updatedRelations > 0
           THEN << Line("relations", "", <<newRelations, updatedRelations, kg.total_edges>>) >>
           ELSE <<>>)
       \o (IF kg.persisted THEN << Line("saved to disk", "", <<>>) >> ELSE <<>>)
       \o (IF NumberOr0(kg.skipped_relations_count) > 0
           THEN << Line("relations skipped", "", <<Get(kg.skipped_relations_count)>>) >>
           ELSE <<>>)

\* lines 37-89: the message and the duration of the banner of line 91
UploadBanner(result, buildGraph) ==
    LET head == << Line("upload succeeded", "", <<result.chunks>>) >>
        kg == Get(result.knowledge_graph)
    IN IF ~buildGraph
       THEN [message |-> head \o << Line("graph not built (disabled)", "", <<>>) >>,
             duration |-> 5000]
       ELSE IF IsSome(result.knowledge_graph)
       THEN IF kg.success
            THEN [message |-> head \o KgSuccessLines(kg),
                  duration |-> IF NumberOr0(kg.skipped_relations_count) > 0
                               THEN 8000 ELSE 7000]
            ELSE [message |-> head \o
                     << Line("graph build failed",
                             IF Truthy(kg.error) THEN Get(kg.error) ELSE "unknown error",
                             <<>>) >>,
                  duration |-> 8000]
       ELSE IF Truthy(result.knowledge_graph_error)
       THEN [message |-> head \o
                << Line("graph build failed", Get(result.knowledge_graph_error), <<>>) >>,
             duration |-> 8000]
       ELSE [message |-> head, duration |-> 5000]

\* handleFileSelect up to its first await (lines 14-29); with a file the
\* call owes the turn of its resumption
handleFileSelect(file, buildGraph) ==
    /\ last' = Quiet("handleFileSelect")
    /\ IF ~file
         THEN /\ turns < MaxTurns
              /\ turns' = turns + 1
              /\ UNCHANGED <<bannerVars, uploads>>
         ELSE /\ turns + 2 <= MaxTurns
              /\ turns' = turns + 2
              /\ Len(uploads) < MaxInFlight
              /\ showStatus(<< Line("uploading", "", <<>>) >>, "connected", 0)
              /\ uploads' = Append(uploads, [buildGraph |-> buildGraph])
    /\ UNCHANGED <<graphVars, socketVars, chatVars, docCount, listings>>

\* handleFileSelect from line 34 on (lines 34-101): the banner of the
\* outcome and, after a successful upload, loadDocuments() up to its await
UploadComplete(call, resp) ==
    /\ call \in 1..Len(uploads)
    /\ \A earlier \in 1..(call - 1) : uploads[earlier] # uploads[call]
    /\ uploads' = RemoveAt(uploads, call)
    /\ last' = Quiet("handleFileSelect resumed")
    /\ IF ~resp.resolved
         THEN /\ showStatus(<< Line("upload error", "Failed to fetch", <<>>) >>,
                                      "error", 5000)
              /\ UNCHANGED listings
         ELSE IF ~Get(resp.result).success
         THEN /\ showStatus(<< Line("upload failed", Get(resp.result).message, <<>>) >>,
                                      "error", 5000)
              /\ UNCHANGED listings
         ELSE LET banner == UploadBanner(Get(resp.result), uploads[call].buildGraph)
              IN /\ showStatus(banner.message, "connected", banner.duration)
                 /\ listings' = listings + 1
    /\ UNCHANGED <<graphVars, socketVars, chatVars, docCount, turns>>

\* what the awaits of loadDocuments resolve to: a rejection, or a body with
\* success false, or the list of documents (here its length)
DocumentsResponses ==
    { [resolved |-> FALSE, success |-> FALSE, documents |-> 0],
      [resolved |-> TRUE, success |-> FALSE, documents |-> 0] } \cup
    { [resolved |-> TRUE, success |-> TRUE, documents |-> n] : n \in 0..2 }

\* loadDocuments from its await on (file-upload.js lines 109-118)
DocumentsLoaded(resp) ==
    /\ listings > 0
    /\ listings' = listings - 1
    /\ docCount' = IF resp.resolved /\ resp.success THEN Some(resp.documents) ELSE docCount
    /\ last' = Quiet("loadDocuments resumed")
    /\ UNCHANGED <<graphVars, bannerVars, socketVars, chatVars, uploads, turns>>

\* the timer of lines 383-387 with document.querySelector('.status').remove()
\* for status.remove()
StatusExpiresRemovingFirst(serial) ==
    /\ serial \in timers
    /\ timers' = timers \ {serial}
    /\ status' = IF status # <<>> THEN Tail(status) ELSE status
    /\ last' = Quiet("status timer")
    /\ UNCHANGED <<graphVars, socketVars, chatVars, uploadVars, turns>>

\* the timer of lines 383-387: status.remove() on the element the timer
\* was set for, which does nothing when the element is no longer attached
StatusExpires(serial) ==
    /\ serial \in timers
    /\ timers' = timers \ {serial}
    /\ status' = SelectSeq(status, LAMBDA b : b.serial # serial)
    /\ last' = Quiet("status timer")
    /\ UNCHANGED <<graphVars, socketVars, chatVars, uploadVars, turns>>

UploadNext ==
    \/ \E file \in BOOLEAN, buildGraph \in BOOLEAN : handleFileSelect(file, buildGraph)
    \/ \E call \in 1..MaxInFlight, resp \in UploadResponses : UploadComplete(call, resp)
    \/ \E resp \in DocumentsResponses : DocumentsLoaded(resp)
    \/ \E serial \in timers : StatusExpires(serial)

UploadSpec == Init /\ [][UploadNext]_vars

----------------------------------------------------------------------------

Next ==
    \/ LoadStart
    \/ \E call \in 1..MaxInFlight, resp \in Responses : LoadComplete(call, resp)
    \/ \E value \in Queries : searchEntity(value)
    \/ \E target \in ClickTargets : Click(target)
    \/ \E target \in Targets : DoubleClick(target)
    \/ fitGraph
    \/ exportGraph

Spec == Init /\ [][Next]_vars

----------------------------------------------------------------------------
(* The WebSocket of websocket.js and the chat of chat.js.  A socket is     *)
(* "connecting" until its open event, "open" until its error or close      *)
(* event, "failed" (error before it opened) or "broken" (error after) from *)
(* an error event to the close event that follows it, and "closed" after   *)
(* its close event.                                                        *)

\* connectWebSocket (websocket.js lines 9-38): a new socket, assigned to ws,
\* with the four handlers below
connectWebSocket ==
    /\ sockets' = Append(sockets, "connecting")
    /\ ws' = Some(Len(sockets) + 1)

\* initApp (app.js lines 6-17), the listener of the load event:
\* connectWebSocket(), initFileUpload(), and loadDocuments() up to its await
initApp ==
    /\ ws = None
    /\ turns < MaxTurns
    /\ turns' = turns + 1
    /\ connectWebSocket
    /\ listings' = listings + 1
    /\ last' = Quiet("initApp")
    /\ UNCHANGED <<graphVars, bannerVars, isConnected, reconnects, chatVars,
                   docCount, uploads>>

\* ws.onopen (lines 15-19)
SocketOpens(s) ==
    /\ turns < MaxTurns
    /\ turns' = turns + 1
    /\ s \in 1..Len(sockets)
    /\ sockets[s] = "connecting"
    /\ sockets' = [sockets EXCEPT ![s] = "open"]
    /\ isConnected' = TRUE
    /\ showStatus(<< Line("connected", "", <<>>) >>, "connected", DefaultDuration)
    /\ last' = Quiet("onopen")
    /\ UNCHANGED <<graphVars, ws, reconnects, chatVars, uploadVars>>

\* ws.onerror (lines 34-37)
SocketErrors(s) ==
    /\ turns < MaxTurns
    /\ turns' = turns + 1
    /\ s \in 1..Len(sockets)
    /\ sockets[s] \in {"connecting", "open"}
    /\ sockets' = [sockets EXCEPT ![s] = IF @ = "open" THEN "broken" ELSE "failed"]
    /\ showStatus(<< Line("connection error", "", <<>>) >>, "error", DefaultDuration)
    /\ last' = Quiet("onerror")
    /\ UNCHANGED <<graphVars, ws, isConnected, reconnects, chatVars, uploadVars>>

\* ws.onclose without the timer of line 31
SocketClosesForGood(s) ==
    /\ turns < MaxTurns
    /\ turns' = turns + 1
    /\ s \in 1..Len(sockets)
    /\ sockets[s] \in {"connecting", "open", "failed", "broken"}
    /\ sockets' = [sockets EXCEPT ![s] = "closed"]
    /\ isConnected' = FALSE
    /\ showStatus(<< Line("disconnected", "", <<>>) >>, "disconnected", DefaultDuration)
    /\ UNCHANGED reconnects
    /\ last' = Quiet("onclose")
    /\ UNCHANGED <<graphVars, ws, chatVars, uploadVars>>

\* ws.onclose (lines 26-32)
SocketCloses(s) ==
    /\ turns < MaxTurns
    /\ turns' = turns + 1
    /\ s \in 1..Len(sockets)
    /\ sockets[s] \in {"connecting", "open", "failed", "broken"}
    /\ sockets' = [sockets EXCEPT ![s] = "closed"]
    /\ isConnected' = FALSE
    /\ showStatus(<< Line("disconnected", "", <<>>) >>, "disconnected", DefaultDuration)
    /\ reconnects' = reconnects + 1
    /\ last' = Quiet("onclose")
    /\ UNCHANGED <<graphVars, ws, chatVars, uploadVars>>

\* the timer of line 31 fires: connectWebSocket()
ReconnectTimer ==
    /\ turns < MaxTurns
    /\ turns' = turns + 1
    /\ reconnects > 0
    /\ reconnects' = reconnects - 1
    /\ connectWebSocket
    /\ last' = Quiet("reconnect timer")
    /\ UNCHANGED <<graphVars, bannerVars, isConnected, chatVars, uploadVars>>

\* the bodies the server sends over the socket
InboundMessages ==
    { [type |-> t, content |-> "text", stage |-> "", current |-> None, total |-> None] :
        t \in {"tool_call", "tool_result", "assistant_message", "error",
               "system_message", "other"} }
    \cup
    { [type |-> "upload_progress", content |-> "indexing", stage |-> g,
       current |-> c[1], total |-> c[2]] :
        g \in {"processing", "error", "completed"},
        c \in { <<None, None>>, <<Some(1), Some(3)>> } }

\* handleUploadProgress (lines 143-167): the progress text, with the counts
\* when both are truthy, shown without a timer
handleUploadProgress(data) ==
    showStatus(<< Line("progress", data.content,
                       IF NumberOr0(data.current) # 0 /\ NumberOr0(data.total) # 0
                       THEN <<Get(data.current), Get(data.total)>> ELSE <<>>) >>,
               IF data.stage = "error" THEN "error" ELSE "connected",
               0)

\* ws.onmessage (lines 21-24) and handleMessage (lines 66-95) with the
\* handlers of lines 101-167
SocketMessage(s, data) ==
    /\ turns < MaxTurns
    /\ turns' = turns + 1
    /\ s \in 1..Len(sockets)
    /\ sockets[s] = "open"
    /\ last' = [Quiet("onmessage") EXCEPT !.input = Some(data.type)]
    /\ CASE data.type \in {"tool_call", "tool_result"} ->
              /\ chat' = Append(chat, [role |-> data.type, content |-> <<data.content>>])
              /\ UNCHANGED <<bannerVars, sendDisabled>>
         [] data.type = "assistant_message" ->
              /\ chat' = Append(chat, [role |-> "assistant", content |-> <<data.content>>])
              /\ sendDisabled' = FALSE
              /\ UNCHANGED bannerVars
         [] data.type = "error" ->
              /\ showStatus(<< Line("error", data.content, <<>>) >>, "error", DefaultDuration)
              /\ sendDisabled' = FALSE
              /\ UNCHANGED chat
         [] data.type = "system_message" ->
              /\ showStatus(<< Line("", data.content, <<>>) >>, "connected", 3000)
              /\ UNCHANGED <<chat, sendDisabled>>
         [] data.type = "upload_progress" ->
              /\ handleUploadProgress(data)
              /\ UNCHANGED <<chat, sendDisabled>>
         [] OTHER -> UNCHANGED <<bannerVars, chat, sendDisabled>>
    /\ UNCHANGED <<graphVars, socketVars, messageInput, sent, uploadVars>>

\* what #messageInput may hold when sendMessage runs
MessageTexts == { <<>>, <<" ">>, <<"a">>, <<" ", "a">> }

\* sendWebSocketMessage (lines 44-50): whether the data goes to ws.send
Sendable == ws # None /\ isConnected

\* sendMessage with the test of line 11 left out
sendMessageUnchecked(value) ==
    /\ turns < MaxTurns
    /\ turns' = turns + 1
    /\ LET message == trim(value) IN
         IF message = <<>>
         THEN /\ messageInput' = value
              /\ last' = [Quiet("sendMessage") EXCEPT !.input = Some(value)]
              /\ UNCHANGED <<bannerVars, chat, sendDisabled, sent>>
         ELSE /\ chat' = Append(chat, [role |-> "user", content |-> message])
              /\ sent' = IF Sendable
                         THEN Append(sent, [socket |-> Get(ws), type |-> "user_message",
                                            content |-> message])
                         ELSE sent
              /\ messageInput' = <<>>
              /\ sendDisabled' = TRUE
              /\ last' = [Quiet("sendMessage") EXCEPT !.input = Some(value)]
              /\ UNCHANGED bannerVars
    /\ UNCHANGED <<graphVars, socketVars, uploadVars>>

\* sendMessage (chat.js lines 6-30); value is the text of #messageInput
sendMessage(value) ==
    /\ turns < MaxTurns
    /\ turns' = turns + 1
    /\ LET message == trim(value) IN
         IF message = <<>>
         THEN /\ messageInput' = value
              /\ last' = [Quiet("sendMessage") EXCEPT !.input = Some(value)]
              /\ UNCHANGED <<bannerVars, chat, sendDisabled, sent>>
         ELSE IF ~isConnected
         THEN /\ showStatus(<< Line("not connected", "", <<>>) >>, "error", DefaultDuration)
              /\ messageInput' = value
              /\ last' = [Quiet("sendMessage") EXCEPT !.input = Some(value)]
              /\ UNCHANGED <<chat, sendDisabled, sent>>
         ELSE /\ chat' = Append(chat, [role |-> "user", content |-> message])
              /\ sent' = IF Sendable
                         THEN Append(sent, [socket |-> Get(ws), type |-> "user_message",
                                            content |-> message])
                         ELSE sent
              /\ messageInput' = <<>>
              /\ sendDisabled' = TRUE
              /\ last' = [Quiet("sendMessage") EXCEPT !.input = Some(value)]
              /\ UNCHANGED bannerVars
    /\ UNCHANGED <<graphVars, socketVars, uploadVars>>

ShellNext ==
    \/ initApp
    \/ \E s \in 1..Len(sockets) : SocketOpens(s)
    \/ \E s \in 1..Len(sockets) : SocketErrors(s)
    \/ \E s \in 1..Len(sockets) : SocketCloses(s)
    \/ ReconnectTimer
    \/ \E s \in 1..Len(sockets), data \in InboundMessages : SocketMessage(s, data)
    \/ \E value \in MessageTexts : sendMessage(value)
    \/ \E resp \in DocumentsResponses : DocumentsLoaded(resp)
    \/ \E serial \in timers : StatusExpires(serial)

ShellSpec == Init /\ [][ShellNext]_vars

----------------------------------------------------------------------------
(* The loader on exports whose nodes carry any type label.                 *)

\* type labels the server may send: the keys of the table, names that
\* Object.prototype defines, and labels that are neither
TypeLabels == DOMAIN typeColors \cup ObjectPrototypeKeys \cup {"Alien", ""}

TypedNode(id, type) ==
    [id |-> id, label |-> <<"A", "a">>, type |-> type,
     description |-> None, source_document |-> None]

\* exports of one node, or of two nodes of different types, without edges
TypedResults ==
    { [success |-> TRUE, error |-> None, nodes |-> Some(<<TypedNode(1, t)>>),
       edges |-> Some(<<>>), nodes_count |-> Some(1), edges_count |-> Some(0)] :
         t \in TypeLabels }
    \cup
    { [success |-> TRUE, error |-> None,
       nodes |-> Some(<<TypedNode(1, "Person"), TypedNode(2, t)>>),
       edges |-> Some(<<>>), nodes_count |-> Some(2), edges_count |-> Some(0)] :
         t \in TypeLabels }

\* a rejection, a refusal, a payload without nodes, and the typed exports
TypedResponses ==
    { [resolved |-> FALSE, result |-> None] } \cup
    { [resolved |-> TRUE, result |-> Some(r)] :
        r \in TypedResults \cup
              {[success |-> s, error |-> None, nodes |-> None, edges |-> None,
                nodes_count |-> None, edges_count |-> None] : s \in BOOLEAN} }

TypedNext ==
    \/ LoadStart
    \/ \E call \in 1..MaxInFlight, resp \in TypedResponses : LoadComplete(call, resp)

TypedSpec == Init /\ [][TypedNext]_vars

----------------------------------------------------------------------------
(* Properties.                                                             *)

\* a response with success true whose nodes or edges list is missing
Malformed(resp) ==
    /\ resp.resolved
    /\ Get(resp.result).success
    /\ (Get(resp.result).nodes = None \/ Get(resp.result).edges = None)

\* the responses with success false
RefusingResponses == {resp \in Responses : resp.resolved /\ ~Get(resp.result).success}

\* the responses of a failed request or with a malformed payload
FailingResponses == {resp \in Responses : ~resp.resolved \/ Malformed(resp)}

\* a step of the handler named op
Ran(op) == last'.op = op

\* q occurs, ignoring letter case, in the label or in the description
QueryOccurs(q, node) ==
    \/ includes(toLowerCase(node.label), toLowerCase(q))
    \/ /\ IsSome(node.description)
       /\ includes(toLowerCase(Get(node.description)), toLowerCase(q))

Highlighted(node) ==
    node.color = HighlightColor /\ node.borderWidth = Some(HighlightBorder)

\* C1: at most one reload is in flight at any time; a reload requested
\* while another is pending issues no second request.
C1_OneReloadInFlight == Len(pending) <= 1

\* C2: when the response has success false, the loader alerts the server's
\* error text (a default text when there is none) and the stored nodes, the
\* stored edges and the snapshot used by export stay as they were.
C2_RefusalReplacesNothing ==
    [][Ran("loadGraph resumed") =>
        \A call \in 1..Len(pending), resp \in RefusingResponses :
          LoadComplete(call, resp) =>
             /\ nodes' = nodes
             /\ edges' = edges
             /\ graphData' = graphData
             /\ last'.alert = IF Get(resp.result).error \in {None, Some("")}
                                THEN Some("unknown error")
                                ELSE Get(resp.result).error]_vars

C2_Witness ==
    /\ last.op = "loadGraph resumed"
    /\ last.alert = Some("graph store offline")
    /\ nodes # None
    /\ graphData # None

\* C3: when a reload fails because the request fails or the payload is
\* malformed, the stored nodes, the stored edges and the snapshot used by
\* export all keep their values from before the reload.
C3_FailureReplacesNothing ==
    [][Ran("loadGraph resumed") =>
        \A call \in 1..Len(pending), resp \in FailingResponses :
          LoadComplete(call, resp) =>
             /\ nodes' = nodes
             /\ edges' = edges
             /\ graphData' = graphData]_vars

\* C4: a reload that ends in failure leaves the rendering container that
\* showed the prior graph with the content it had before the reload was
\* requested.
C4_FailureKeepsRenderedGraph ==
    [][(Ran("loadGraph resumed") /\ ~last'.replaced) =>
        \A call \in 1..Len(pending), resp \in Responses :
          (pending[call].before = "canvas" /\ LoadComplete(call, resp)) =>
             container' = "canvas"]_vars

\* C5: every edge held in the store has its source and its target among the
\* nodes of the stored snapshot.
C5_NoDanglingEdgeStored ==
    edges # None =>
        \A i \in 1..Len(Get(edges)) :
            /\ Get(edges)[i].from \in Ids(Get(nodes))
            /\ Get(edges)[i].to \in Ids(Get(nodes))

\* the export edges whose source or target is not among the export's nodes
DanglingIn(result) ==
    {i \in 1..Len(Get(result.edges)) :
        \/ Get(result.edges)[i].source \notin Ids(Get(result.nodes))
        \/ Get(result.edges)[i].target \notin Ids(Get(result.nodes))}

\* C6: a load drops, and counts, exactly the export edges whose source or
\* target is absent from the export's nodes: the number of edges left out
\* of the store is the number of such edges.
C6_DanglingEdgesCounted ==
    last.replaced =>
        Len(Get(graphData).edges) - Len(Get(edges)) = Cardinality(DanglingIn(Get(graphData)))

\* the last handler was a search of a loaded snapshot, with a query that
\* is not empty or whitespace-only
SearchedFor ==
    /\ last.op = "searchEntity"
    /\ nodes # None
    /\ trim(Get(last.input)) # <<>>

\* C7: a search with a non-empty query on a loaded snapshot asks for a focus
\* on, and calls the detail panel for, the matching node exactly once each
\* when exactly one node matches, and does neither when none or several do.
C7_AutoFocusIffSingleMatch ==
    SearchedFor =>
        LET q == trim(Get(last.input))
            hits == {i \in 1..Len(Get(nodes)) : QueryOccurs(q, Get(nodes)[i])}
        IN IF Cardinality(hits) = 1
           THEN \A i \in hits : /\ last.focused = <<Get(nodes)[i].id>>
                                /\ last.detailed = <<Get(nodes)[i].id>>
           ELSE last.focused = <<>> /\ last.detailed = <<>>

C7_Witness ==
    /\ SearchedFor
    /\ Len(last.focused) = 1
    /\ last.detailed = last.focused
    /\ Len(Get(nodes)) = 2

\* C8 as stated: after search(q) with a non-empty query, a node is
\* highlighted (color and border) iff q occurs, ignoring case, in its label
\* or description; every other node has the color of its type.
C8_HighlightIffQueryOccurs ==
    SearchedFor =>
        \A i \in 1..Len(Get(nodes)) :
            IF QueryOccurs(Get(last.input), Get(nodes)[i])
            THEN Highlighted(Get(nodes)[i])
            ELSE /\ ~Highlighted(Get(nodes)[i])
                 /\ Get(nodes)[i].color = colorFor(Get(nodes)[i].type)

\* C8 amended: the same with q stripped of leading and trailing white space.
C8_HighlightIffTrimmedQueryOccurs ==
    SearchedFor =>
        \A i \in 1..Len(Get(nodes)) :
            IF QueryOccurs(trim(Get(last.input)), Get(nodes)[i])
            THEN Highlighted(Get(nodes)[i])
            ELSE /\ ~Highlighted(Get(nodes)[i])
                 /\ Get(nodes)[i].color = colorFor(Get(nodes)[i].type)

\* a query with white space around it highlighted one node of two
C8_Witness ==
    /\ SearchedFor
    /\ trim(Get(last.input)) # Get(last.input)
    /\ \E i, j \in 1..Len(Get(nodes)) :
          /\ Highlighted(Get(nodes)[i])
          /\ Get(nodes)[j].color = colorFor(Get(nodes)[j].type)
          /\ Get(nodes)[j].borderWidth = Some(DefaultBorder)

\* C9: after a search with an empty or whitespace-only query, whatever was
\* searched before, every node has the color of its type, and the search
\* asks for no focus and calls no detail panel.
C9_EmptyQueryResetsColors ==
    (last.op = "searchEntity" /\ trim(Get(last.input)) = <<>>) =>
        /\ nodes # None =>
             \A i \in 1..Len(Get(nodes)) :
                 Get(nodes)[i].color = colorFor(Get(nodes)[i].type)
        /\ last.focused = <<>>
        /\ last.detailed = <<>>

\* an empty search that followed a highlighting one: the border the
\* highlight set is still there, the colors are those of the types
C9_Witness ==
    /\ last.op = "searchEntity"
    /\ trim(Get(last.input)) = <<>>
    /\ nodes # None
    /\ \E i \in 1..Len(Get(nodes)) : Get(nodes)[i].borderWidth = Some(HighlightBorder)
    /\ \A i \in 1..Len(Get(nodes)) : Get(nodes)[i].color = colorFor(Get(nodes)[i].type)

\* C10: for every node id, each stored edge that touches the id is in
\* exactly one of the outgoing and incoming lists, and no other edge is in
\* either.
C10_NeighborsPartition ==
    edges # None =>
        \A id \in Ids(Get(nodes)) \cup {99} :
            LET out == outgoing(Get(edges), id)
                inc == incoming(Get(edges), id)
                In(l, e) == \E k \in 1..Len(l) : l[k] = e
            IN \A i \in 1..Len(Get(edges)) :
                  LET e == Get(edges)[i] IN
                  IF e.from = id \/ e.to = id
                  THEN In(out, e) # In(inc, e)
                  ELSE ~In(out, e) /\ ~In(inc, e)

\* C11: an export that follows a successful load, with searches, clicks and
\* other handlers that load nothing in between, writes a document with the
\* nodes and the edges of the export that was loaded, in the same order.
C11_ExportReproducesLoadedExport ==
    (last.op = "exportGraph" /\ loaded # None) =>
        /\ last.download # None
        /\ Get(last.download).nodes = Get(loaded).nodes
        /\ Get(last.download).edges = Get(loaded).edges

\* an export of a snapshot with edges, after a search highlighted a node
C11_Witness ==
    /\ last.op = "exportGraph"
    /\ loaded # None
    /\ Get(Get(loaded).edges) # <<>>
    /\ \E i \in 1..Len(Get(nodes)) : Highlighted(Get(nodes)[i])

\* C12: when a load has just replaced the snapshot, no node of the new
\* snapshot is highlighted (each has the color of its type and the default
\* border width) and the detail panel shows no node selected before the load.
C12_LoadResetsSelection ==
    last.replaced =>
        /\ \A i \in 1..Len(Get(nodes)) :
              /\ Get(nodes)[i].color = colorFor(Get(nodes)[i].type)
              /\ Get(nodes)[i].borderWidth \in {None, Some(DefaultBorder)}
        /\ panel = None

\* C13: the rendering surface is constructed by the first successful load
\* and by no later one: none exists before a snapshot is stored, exactly one
\* ever after, however many reloads succeed.
C13_OneSurfaceEver ==
    /\ surfaces = (IF nodes = None THEN 0 ELSE 1)
    /\ network = (IF nodes = None THEN None ELSE Some(1))

\* a load replaced the snapshot through network.setData: the surface was
\* there before, and #mynetwork still has the content showLoading gave it
C13_Witness ==
    /\ last.replaced
    /\ container = "loading"
    /\ surfaces = 1

\* the upload responses whose knowledge-graph build succeeded
BuiltResponses ==
    {resp \in UploadResponses :
        /\ resp.resolved
        /\ Get(resp.result).success
        /\ IsSome(Get(resp.result).knowledge_graph)
        /\ Get(Get(resp.result).knowledge_graph).success}

\* C14: when an upload resumes with a response whose knowledge-graph build
\* succeeded, the handler starts a reload of the graph: a loadGraph call is
\* pending that was not before.
C14_BuildTriggersReload ==
    [][Ran("handleFileSelect resumed") =>
        \A call \in 1..Len(uploads), resp \in BuiltResponses :
          (uploads[call].buildGraph /\ UploadComplete(call, resp)) =>
             Len(pending') = Len(pending) + 1]_vars

\* C15: a call of showEntityDetails with an id that no node of the store has
\* throws nothing and changes neither the detail panel nor the stored
\* nodes, edges and snapshot.
C15_AbsentIdChangesNothing ==
    [][(Ran("click") /\ last'.detailed # <<>>) =>
         (last'.detailed[1] \notin Ids(Get(nodes)) =>
            /\ ~last'.threw
            /\ panel' = panel
            /\ nodes' = nodes
            /\ edges' = edges
            /\ graphData' = graphData)]_vars

\* a click reported an absent id while the panel showed a node's details
C15_Witness ==
    /\ last.op = "click"
    /\ last.detailed = <<99>>
    /\ 99 \notin Ids(Get(nodes))
    /\ panel # None

\* C16: the color a load gives a node is the table's color for the node's
\* type when the type is a key of the table and the color of Unknown
\* otherwise; it is always one of the table's colors.
C16_ColorIsTableColor ==
    last.replaced =>
        \A i \in 1..Len(Get(nodes)) :
            LET node == Get(nodes)[i] IN
            /\ node.color = IF node.type \in DOMAIN typeColors
                             THEN typeColors[node.type]
                             ELSE typeColors["Unknown"]
            /\ node.color \in {typeColors[t] : t \in DOMAIN typeColors}

\* C17: when a load has just replaced the snapshot, the displayed node
\* count is the number of stored nodes, the displayed edge count the number
\* of stored edges, and the displayed type count the number of distinct
\* types among the stored nodes.
C17_StatsDerivedFromStore ==
    last.replaced =>
        /\ Get(stats).nodeCount = Len(Get(nodes))
        /\ Get(stats).edgeCount = Len(Get(edges))
        /\ Get(stats).typeCount =
              Cardinality({Get(nodes)[i].type : i \in 1..Len(Get(nodes))})

\* a stored node without its presentation attributes
DataOf(node) ==
    [id |-> node.id, label |-> node.label, type |-> node.type,
     description |-> node.description, source_document |-> node.source_document]

\* C18: after a search, a click or a double click on a loaded snapshot, the
\* stored nodes are those the load stored, in the same order, with the same
\* label, type, description and source document, and the stored edges are
\* those the load stored; only color and border width may differ.
C18_InteractionKeepsData ==
    (loaded # None /\ last.op \in {"searchEntity", "click", "doubleClick"}) =>
        /\ Len(Get(nodes)) = Len(Get(Get(loaded).nodes))
        /\ \A i \in 1..Len(Get(nodes)) :
              DataOf(Get(nodes)[i]) = DataOf(nodesArray(Get(loaded))[i])
        /\ Get(edges) = edgesArray(Get(loaded))

\* a search highlighted one node of a snapshot with two nodes and an edge
C18_Witness ==
    /\ loaded # None
    /\ last.op = "searchEntity"
    /\ Len(Get(nodes)) = 2
    /\ Get(edges) # <<>>
    /\ \E i, j \in 1..2 : Highlighted(Get(nodes)[i]) /\ ~Highlighted(Get(nodes)[j])

\* C19: after a search with an empty query, whatever a search highlighted
\* before, every stored node has the default border width.
C19_EmptyQueryResetsBorder ==
    (last.op = "searchEntity" /\ trim(Get(last.input)) = <<>> /\ nodes # None) =>
        \A i \in 1..Len(Get(nodes)) :
            Get(nodes)[i].borderWidth \in {None, Some(DefaultBorder)}

\* C20: when a load has just replaced the snapshot, building the details of
\* any stored node throws nothing and lists one entry for each stored edge
\* that touches the node, with the labels of both endpoints read from the
\* store: (selected, relation, target) going out, (source, relation,
\* selected) coming in.
C20_DetailsResolveEveryEdge ==
    last.replaced =>
        \A id \in Ids(Get(nodes)) :
            LET shown == showEntityDetails(id)
                self == Get(DataSetGet(Get(nodes), id)).label
                from == {i \in 1..Len(Get(edges)) : Get(edges)[i].from = id}
                to == {i \in 1..Len(Get(edges)) : Get(edges)[i].to = id}
            IN /\ ~shown.threw
               /\ shown.panel # None
               /\ Len(Get(shown.panel).outgoing) = Cardinality(from)
               /\ Len(Get(shown.panel).incoming) = Cardinality(to)
               /\ \A k \in 1..Len(Get(shown.panel).outgoing) :
                     Get(shown.panel).outgoing[k][1] = self
               /\ \A k \in 1..Len(Get(shown.panel).incoming) :
                     Get(shown.panel).incoming[k][3] = self

\* C21: the details a click builds for a stored node carry the "no
\* relations" text if and only if both relation lists of the panel are
\* empty, which is when no stored edge touches the node.
C21_NoRelationsIffBothEmpty ==
    (last.op = "click" /\ last.detailed # <<>> /\ ~last.threw
       /\ last.detailed[1] \in Ids(Get(nodes))) =>
        LET id == last.detailed[1]
            touched == \E i \in 1..Len(Get(edges)) :
                          Get(edges)[i].from = id \/ Get(edges)[i].to = id
        IN /\ Get(panel).id = id
           /\ Get(panel).noRelations <=>
                 (Get(panel).outgoing = <<>> /\ Get(panel).incoming = <<>>)
           /\ Get(panel).noRelations <=> ~touched

\* a click on a node that no edge touches, in a snapshot that has an edge
C21_Witness ==
    /\ last.op = "click"
    /\ last.detailed # <<>>
    /\ panel # None
    /\ Get(panel).id = last.detailed[1]
    /\ Get(panel).noRelations
    /\ Get(edges) # <<>>

\* the ids of a list of edges increase along the list
AscendingIds(l) == \A i, j \in 1..Len(l) : i < j => l[i].id < l[j].id

\* C22: the stored edges have the ids 0, 1, ..., n-1 in the order of the
\* export's edges, counted from 0 again by every load, and the outgoing and
\* the incoming list of any node are each in ascending order of edge id.
C22_EdgeIdsSequential ==
    edges # None =>
        /\ \A i \in 1..Len(Get(edges)) : Get(edges)[i].id = i - 1
        /\ loaded # None =>
              /\ Len(Get(edges)) = Len(Get(Get(loaded).edges))
              /\ \A i \in 1..Len(Get(edges)) :
                    /\ Get(edges)[i].from = Get(Get(loaded).edges)[i].source
                    /\ Get(edges)[i].to = Get(Get(loaded).edges)[i].target
                    /\ Get(edges)[i].label = Get(Get(loaded).edges)[i].relation
        /\ \A id \in Ids(Get(nodes)) \cup {99} :
              /\ AscendingIds(outgoing(Get(edges), id))
              /\ AscendingIds(incoming(Get(edges), id))

\* a reload stored two edges that leave the same node
C22_Witness ==
    /\ last.replaced
    /\ container = "loading"
    /\ Len(Get(edges)) = 2
    /\ \E id \in Ids(Get(nodes)) : Len(outgoing(Get(edges), id)) = 2

\* C23: in every state a handler can observe, the stored nodes, the stored
\* edges and the snapshot used by export come from one and the same export
\* response: where nodes are stored, the snapshot has both lists, the
\* stored nodes are its nodes and the stored edges are its edges.
C23_OneResponseEverywhere ==
    nodes # None =>
        /\ graphData # None
        /\ IsSome(Get(graphData).nodes)
        /\ IsSome(Get(graphData).edges)
        /\ Len(Get(nodes)) = Len(Get(Get(graphData).nodes))
        /\ \A i \in 1..Len(Get(nodes)) :
              DataOf(Get(nodes)[i]) = DataOf(nodesArray(Get(graphData))[i])
        /\ Get(edges) = edgesArray(Get(graphData))

\* C24: a click on a stored node builds the detail panel for that node and
\* asks for no focus; a double click on a stored node asks for a focus on
\* that node with scale 1.5, duration 1000 and easing easeInOutQuad; a
\* click or a double click on the background does neither.
C24_ClickShowsDoubleClickFocuses ==
    /\ (last.op = "click" /\ last.detailed # <<>>
          /\ last.detailed[1] \in Ids(Get(nodes))) =>
            /\ ~last.threw
            /\ panel # None
            /\ Get(panel).id = last.detailed[1]
            /\ last.focused = <<>>
    /\ (last.op = "click" /\ last.detailed = <<>>) => last.focused = <<>>
    /\ last.op = "doubleClick" =>
            /\ last.detailed = <<>>
            /\ ~last.threw
            /\ last.focused # <<>> =>
                  /\ Len(last.focused) = 1
                  /\ last.focused[1] \in Ids(Get(nodes))
                  /\ last.animation = Some(FocusOptions)

\* C25: a fit or a search that runs while no rendering surface exists
\* throws nothing, asks the surface for nothing and leaves the stored
\* nodes, the stored edges and the snapshot as they were.
C25_NoSurfaceFailsSilently ==
    [][((Ran("fitGraph") \/ Ran("searchEntity")) /\ network = None) =>
         /\ ~last'.threw
         /\ last'.alert = None
         /\ ~last'.fitted
         /\ last'.focused = <<>>
         /\ last'.animation = None
         /\ nodes' = nodes
         /\ edges' = edges
         /\ graphData' = graphData]_vars

\* a fit requested after the only load so far failed while building the
\* stores: no surface exists
C25_Witness ==
    /\ last.op = "fitGraph"
    /\ network = None
    /\ graphData # None

\* the sockets whose close event has not been delivered
LiveSockets == {s \in 1..Len(sockets) : sockets[s] # "closed"}

\* C26: at most one socket is connecting or open at a time; every close
\* event has scheduled exactly one reconnect (each closed socket is matched
\* by a pending reconnect timer or by the socket a fired timer created) and
\* an error event none; the connected flag is true exactly from the open
\* event of the current socket to its close event.
C26_OneSocketOneReconnectPerClose ==
    /\ Cardinality(LiveSockets) <= 1
    /\ ws = (IF sockets = <<>> THEN None ELSE Some(Len(sockets)))
    /\ Len(sockets) - Cardinality(LiveSockets)
          = reconnects + (IF sockets = <<>> THEN 0 ELSE Len(sockets) - 1)
    /\ isConnected <=> (ws # None /\ sockets[Get(ws)] \in {"open", "broken"})

\* the socket a reconnect created after a close is open
C26_Witness ==
    /\ Len(sockets) = 2
    /\ sockets[1] = "closed"
    /\ sockets[2] = "open"
    /\ isConnected

\* C27: a sendMessage run with blank input or with the connected flag false
\* adds nothing to the chat, hands nothing to the socket and leaves the
\* input text and the send button as they were; a run that adds a user
\* message or disables the button has handed that message to the socket;
\* and a disabled button becomes enabled only in the handling of an inbound
\* assistant_message or error.
C27_SendOnlyWhenHandedToSocket ==
    [][/\ Ran("sendMessage") =>
            LET value == Get(last'.input)
                handed == [socket |-> Get(ws), type |-> "user_message",
                           content |-> trim(value)]
            IN /\ (trim(value) = <<>> \/ ~isConnected) =>
                     /\ chat' = chat
                     /\ sent' = sent
                     /\ sendDisabled' = sendDisabled
                     /\ messageInput' = value
               /\ (chat' # chat \/ (sendDisabled' /\ ~sendDisabled)) =>
                     /\ ws # None
                     /\ sent' = Append(sent, handed)
                     /\ chat' = Append(chat, [role |-> "user", content |-> trim(value)])
                     /\ sendDisabled'
                     /\ messageInput' = <<>>
       /\ (sendDisabled /\ ~sendDisabled') =>
            /\ Ran("onmessage")
            /\ last'.input \in {Some("assistant_message"), Some("error")}]_vars

\* a message went to the open socket and the button is disabled
C27_Witness ==
    /\ last.op = "sendMessage"
    /\ sendDisabled
    /\ sent # <<>>
    /\ chat # <<>>
    /\ messageInput = <<>>

\* C28: at most one banner is present; a banner shown with duration 0 has
\* no timer; when the banner changes, either a showStatus call put a newly
\* created banner in its place, or the banner's own timer fired and removed
\* it; no other step, and no timer of an earlier banner, removes it.
C28_BannerRemovedOnlyByOwnTimer ==
    [][/\ Len(status') <= 1
       /\ \A i \in 1..Len(status') :
             status'[i].duration = 0 => status'[i].serial \notin timers'
       /\ Ran("status timer") =>
             /\ Cardinality(timers \ timers') = 1
             /\ status' \in {status, <<>>}
       /\ (status # <<>> /\ status' # status) =>
             IF status' = <<>>
             THEN /\ Ran("status timer")
                  /\ status[1].serial \in timers
                  /\ status[1].serial \notin timers'
             ELSE /\ ~Ran("status timer")
                  /\ status'[1].serial \notin timers
                  /\ timers' = IF status'[1].duration > 0
                                THEN timers \cup {status'[1].serial} ELSE timers]_vars

\* the timer of an earlier banner fired while a later banner was present,
\* and the later banner is still there
C28_Witness ==
    /\ last.op = "status timer"
    /\ status # <<>>

====
